---- MODULE Spec2Model ----
(***************************************************************************)
(* Model of llm_dump: the link-graph dump (llm_dump/markdown.py) and the    *)
(* directory dump (llm_dump/repo.py).                                      *)
(*                                                                         *)
(* Strings that name files are modelled as the sequence of their           *)
(* "/"-separated components (what str.split("/") gives); a component is a  *)
(* sequence of pieces, so that "b" is <<"b">> and "b.md" is <<"b", ".md">> *)
(* and appending the suffix is an Append.  A pathlib path is the sequence  *)
(* of its parts, the first part being ROOT for an absolute path; ".."      *)
(* parts are kept, as pathlib keeps them.  The filesystem is a tree of     *)
(* directories and regular files named by canonical paths.                 *)
(***************************************************************************)
EXTENDS Integers, Sequences, FiniteSets, TLC

VARIABLES
    \* ---- one dump_markdown_files / traverse_markdown_files run
    start_file,     \* input_data.start_file (a string)
    base_folder,    \* input_data.base_folder (a path, or NoPath for None)
    base_arg,       \* history: base_folder as the caller passed it
    max_depth,      \* input_data.max_depth
    fileLinks,      \* per regular file: extract_markdown_links of its text
    unreadable,     \* regular files whose open/read raises
    visited,        \* the visited set shared by the recursive calls
    stack,          \* the active calls of traverse_markdown_files, top last
    returned,       \* the list the top-level call returned
    pc,             \* "init", "running", "traversed", "done", "raised"
    err,            \* the error that ended the run, "" if none
    output,         \* the output file: NotWritten, or the blocks written
    captures,       \* history: every FileContent built, in order, with depth
    extracted,      \* history: [path, depth] of calls that extracted links
    \* ---- one resolve_markdown_link call
    r_link, r_current, r_base, r_result, r_pc,
    \* ---- one extract_markdown_links call
    x_text, x_links, x_pc,
    \* ---- one dump_files_to_text run (llm_dump/repo.py)
    gitignore,      \* the .gitignore of the folder: absent, its lines, or unreadable
    g_unreadable,   \* relative paths of the files whose open/read raises
    pathspec,       \* the patterns load_gitignore gave, in order
    tree_structure, \* the lines generate_file_tree returned
    walk_dirs,      \* os.walk: the directories still to yield, next first
    walk_files,     \* os.walk: the files of the yielded directory not iterated yet
    file_contents,  \* traverse_folder's list
    g_passed,       \* history: relative paths that passed the filter of line 71
    g_opened,       \* history: relative paths open() was called on
    g_output,       \* the output file: the tree and the blocks written
    g_pc            \* "idle", "init", "loaded", "tree", "walking", "collected", "done", "raised"

travVars == <<start_file, base_folder, base_arg, max_depth, fileLinks, unreadable, visited,
              stack, returned, pc, err, output, captures, extracted>>
resVars == <<r_link, r_current, r_base, r_result, r_pc>>
extVars == <<x_text, x_links, x_pc>>
repoVars == <<gitignore, g_unreadable, pathspec, tree_structure, walk_dirs, walk_files,
              file_contents, g_passed, g_opened, g_output, g_pc>>
vars == <<travVars, resVars, extVars, repoVars>>

-----------------------------------------------------------------------------
(* Names, strings and pathlib paths *)

\* a component without and with the ".md" suffix
Nm(s) == <<s>>
Md(s) == <<s, ".md">>

EmptyName == <<>>
DotDot == Nm("..")
Dot == Nm(".")
ROOT == Nm("/")

\* Optional[Path] None, and the "no value yet" of the result variables
NoPath == <<Nm("None")>>

\* str.endswith('.md') on one component
EndsWithMd(name) == Len(name) > 0 /\ name[Len(name)] = ".md"

\* ensure_md_extension: a string has at least one component (the empty string
\* has one empty component), and the suffix test reads its last component
ensure_md_extension(str) ==
    IF EndsWithMd(str[Len(str)]) THEN str
    ELSE [str EXCEPT ![Len(str)] = Append(@, ".md")]

\* str.startswith('../')
StartsWithDotDotSlash(str) == Len(str) >= 2 /\ str[1] = DotDot

\* link[3:] of a string that starts with '../'
DropDotDotSlash(str) == Tail(str)

\* str.startswith('/')
StrIsAbsolute(str) == Len(str) >= 2 /\ str[1] = EmptyName

\* pathlib drops empty and "." components when it parses a string
KeptParts(str) == SelectSeq(str, LAMBDA c : c # EmptyName /\ c # Dot)

\* Path(str)
PathOf(str) ==
    IF StrIsAbsolute(str) THEN <<ROOT>> \o KeptParts(str) ELSE KeptParts(str)

IsAbsolute(p) == Len(p) >= 1 /\ p[1] = ROOT

\* str(path), for a relative path (the only use: line 103)
StrOf(p) == IF Len(p) = 0 THEN <<Dot>> ELSE p

\* path.parent
Parent(p) ==
    IF Len(p) = 0 \/ p = <<ROOT>> THEN p ELSE SubSeq(p, 1, Len(p) - 1)

\* path.name (a one-component string; "" for the root and for ".")
NameOf(p) ==
    IF Len(p) = 0 \/ p = <<ROOT>> THEN EmptyName ELSE p[Len(p)]

\* path / str
Join(p, str) ==
    IF StrIsAbsolute(str) THEN PathOf(str) ELSE p \o PathOf(str)

IsPrefix(b, p) == Len(b) <= Len(p) /\ SubSeq(p, 1, Len(b)) = b

\* path.relative_to(base); the caller checks IsPrefix, else ValueError
RelativeTo(p, b) == SubSeq(p, Len(b) + 1, Len(p))

-----------------------------------------------------------------------------
(* The filesystem: canonical paths are sequences of names from the root *)

\* the process's current directory, canonical
Cwd == <<>>

Dirs == { <<>>,
          <<Nm("v")>>,
          <<Nm("v"), Nm("sub")>>,
          <<Nm("v"), Md("e")>> }

Docs == { <<Nm("v"), Md("a")>>,
          <<Nm("v"), Md("b")>>,
          <<Nm("v"), Md("c")>>,
          <<Nm("v"), Nm("sub"), Md("d")>> }

Files == Docs \cup
         { <<Md("a")>>,
           <<Md("v")>>,
           <<Nm("v"), Md("sub")>>,
           <<Nm("v"), Nm("sub"), Md("b")>> }

CanonParent(c) == IF Len(c) = 0 THEN c ELSE SubSeq(c, 1, Len(c) - 1)

\* what the kernel's path walk of `rest` from directory `cur` ends at
RECURSIVE Walk(_, _)
Walk(cur, rest) ==
    IF Len(rest) = 0 THEN cur
    ELSE IF cur \notin Dirs THEN NoPath
    ELSE IF Head(rest) = DotDot THEN Walk(CanonParent(cur), Tail(rest))
    ELSE IF Append(cur, Head(rest)) \in Dirs \cup Files
         THEN Walk(Append(cur, Head(rest)), Tail(rest))
    ELSE NoPath

\* the physical file or directory a path names, NoPath if none
Phys(p) == IF IsAbsolute(p) THEN Walk(<<>>, Tail(p)) ELSE Walk(Cwd, p)

\* Path.exists(), Path.is_file()
Exists(p) == Phys(p) # NoPath
IsFile(p) == Phys(p) \in Files

-----------------------------------------------------------------------------
(* resolve_markdown_link *)

\* mutant of PotentialPath: '../' is taken from the document's directory
PotentialPathOneLevelUp(link, current_file, base) ==
    IF StartsWithDotDotSlash(link)
    THEN Join(Parent(current_file), DropDotDotSlash(link))
    ELSE IF Exists(Join(Parent(current_file), link))
         THEN Join(Parent(current_file), link)
         ELSE Join(base, link)

\* lines 53-60
PotentialPath(link, current_file, base) ==
    IF StartsWithDotDotSlash(link)
    THEN Join(Parent(Parent(current_file)), DropDotDotSlash(link))
    ELSE IF Exists(Join(Parent(current_file), link))
         THEN Join(Parent(current_file), link)
         ELSE Join(base, link)

WithMdName(p) == Join(Parent(p), ensure_md_extension(<<NameOf(p)>>))

resolve_markdown_link(link, current_file, base) ==
    LET potential_path == WithMdName(PotentialPath(link, current_file, base))
    IN IF Exists(potential_path) THEN potential_path ELSE NoPath

-----------------------------------------------------------------------------
(* traverse_markdown_files and dump_markdown_files *)

MaxDepth == 2
MaxLinks == 4

\* the strings the documents' texts refer to
LinkB == <<Nm("b")>>
LinkC == <<Nm("c")>>
LinkSubD == <<Nm("sub"), Nm("d")>>
LinkAlias == <<Nm("sub"), DotDot, Nm("b")>>
LinkUpA == <<DotDot, Nm("a")>>
LinkE == <<Nm("e")>>
LinkAnchor == <<EmptyName>>
AllLinks == {LinkB, LinkC, LinkSubD, LinkAlias, LinkUpA, LinkE, LinkAnchor}
\* the links of the documents of Spec
Links == {LinkB, LinkC, LinkSubD, LinkUpA}

VaultPath == <<ROOT, Nm("v")>>

\* Path.cwd()
CwdPath == <<ROOT>> \o Cwd

\* the output file before open(..., 'w'): no block of a dump has this path
NotWritten == <<[relative_path |-> <<Nm("not written")>>, content |-> {}]>>

\* the sets of at most n (document, link) pairs
RECURSIVE PairSets(_, _, _)
PairSets(n, docs, links) ==
    IF n = 0 THEN {{}}
    ELSE LET smaller == PairSets(n - 1, docs, links)
         IN smaller \cup { s \cup {<<d, l>>} : s \in smaller, d \in docs, l \in links }

LinksOf(pairs) == [f \in Files |-> { l \in AllLinks : <<f, l>> \in pairs }]

FileContent(path) == [file_path |-> path, content |-> fileLinks[Phys(path)]]

\* process_markdown_file returns a FileContent, not None
Readable(path) == IsFile(path) /\ Phys(path) \notin unreadable

\* mutant of StartIsFile: the test is missing
StartIsFileUnchecked(current_file) == TRUE

\* line 80: the test that guards "File not found"
StartIsFile(current_file) == IsFile(current_file)

\* mutant of MarkVisited: the path is not recorded
MarkVisitedForgets(v, current_file) == v

\* line 86: visited.add(current_file)
MarkVisited(v, current_file) == v \cup {current_file}

\* mutant of DepthReached: the test is off by one
DepthReachedOffByOne(current_depth) == current_depth > max_depth

\* line 94: the depth test
DepthReached(current_depth) == current_depth >= max_depth

\* mutant of Extend: the nested results are put in front
ExtendInFront(results, nested_results) == nested_results \o results

\* line 111: results.extend(nested_results)
Extend(results, nested_results) == results \o nested_results

\* line 78
CurrentFile(base, start) == Join(base, ensure_md_extension(start))

\* a call's return: to the caller's results, or out of the top-level call
Return(rest, ret) ==
    IF Len(rest) = 0
    THEN /\ stack' = rest
         /\ returned' = ret
         /\ pc' = "traversed"
    ELSE /\ stack' = [rest EXCEPT ![Len(rest)].results = Extend(@, ret)]
         /\ UNCHANGED returned
         /\ pc' = "running"

\* lines 77-98 of a call traverse_markdown_files(start, visited, current_depth)
\* made with `rest` as the callers' frames
Call(rest, base, start, current_depth) ==
    LET current_file == CurrentFile(base, start) IN
    IF ~StartIsFile(current_file)
    THEN /\ pc' = "raised"
         /\ err' = "File not found"
         /\ stack' = rest
         /\ UNCHANGED <<visited, returned, captures, extracted>>
    ELSE IF current_file \in visited
    THEN /\ Return(rest, <<>>)
         /\ UNCHANGED <<visited, err, captures, extracted>>
    ELSE IF ~Readable(current_file)
    THEN /\ visited' = MarkVisited(visited, current_file)
         /\ Return(rest, <<>>)
         /\ UNCHANGED <<err, captures, extracted>>
    ELSE IF DepthReached(current_depth)
    THEN /\ visited' = MarkVisited(visited, current_file)
         /\ captures' = Append(captures, [file_path |-> current_file, depth |-> current_depth])
         /\ Return(rest, <<FileContent(current_file)>>)
         /\ UNCHANGED <<err, extracted>>
    ELSE /\ visited' = MarkVisited(visited, current_file)
         /\ captures' = Append(captures, [file_path |-> current_file, depth |-> current_depth])
         /\ extracted' = extracted \cup {[file_path |-> current_file, depth |-> current_depth]}
         /\ stack' = Append(rest, [current_file |-> current_file,
                                   depth |-> current_depth,
                                   todo |-> fileLinks[Phys(current_file)],
                                   results |-> <<FileContent(current_file)>>])
         /\ pc' = "running"
         /\ UNCHANGED <<err, returned>>

\* line 77: input_data.base_folder or Path.cwd()
BaseFolderOrCwd == IF base_folder = NoPath THEN CwdPath ELSE base_folder

\* dump_markdown_files, lines 120-123: the default base folder and the
\* top-level call
DumpMarkdownFiles ==
    /\ UNCHANGED <<resVars, extVars, repoVars>>
    /\ pc = "init"
    /\ base_folder' = IF base_folder = NoPath
                      THEN Parent(PathOf(start_file))
                      ELSE base_folder
    /\ Call(<<>>, base_folder', start_file, 0)
    /\ UNCHANGED <<start_file, base_arg, max_depth, fileLinks, unreadable, output>>

Top == stack[Len(stack)]

AfterLink(link) == [stack EXCEPT ![Len(stack)].todo = @ \ {link}]

\* lines 99-101: a link that does not resolve, or resolves to a visited path
SkipLink ==
    /\ UNCHANGED <<resVars, extVars, repoVars>>
    /\ pc = "running"
    /\ \E link \in Top.todo :
        LET resolved_path == resolve_markdown_link(link, Top.current_file, BaseFolderOrCwd)
        IN /\ resolved_path = NoPath \/ resolved_path \in visited
           /\ stack' = AfterLink(link)
    /\ UNCHANGED <<start_file, base_folder, base_arg, max_depth, fileLinks, unreadable, visited,
                   returned, pc, err, output, captures, extracted>>

\* line 103: relative_to raises ValueError for a path not under base_folder
LinkOutsideBase ==
    /\ UNCHANGED <<resVars, extVars, repoVars>>
    /\ pc = "running"
    /\ \E link \in Top.todo :
        LET resolved_path == resolve_markdown_link(link, Top.current_file, BaseFolderOrCwd)
        IN /\ resolved_path # NoPath /\ resolved_path \notin visited
           /\ ~IsPrefix(BaseFolderOrCwd, resolved_path)
           /\ stack' = AfterLink(link)
    /\ pc' = "raised"
    /\ err' = "not in the subpath"
    /\ UNCHANGED <<start_file, base_folder, base_arg, max_depth, fileLinks, unreadable, visited,
                   returned, output, captures, extracted>>

\* lines 99-111: the nested call for a resolved, unvisited link
NestedCall ==
    /\ UNCHANGED <<resVars, extVars, repoVars>>
    /\ pc = "running"
    /\ \E link \in Top.todo :
        LET resolved_path == resolve_markdown_link(link, Top.current_file, BaseFolderOrCwd)
        IN /\ resolved_path # NoPath /\ resolved_path \notin visited
           /\ IsPrefix(BaseFolderOrCwd, resolved_path)
           /\ Call(AfterLink(link), BaseFolderOrCwd,
                   StrOf(RelativeTo(resolved_path, BaseFolderOrCwd)), Top.depth + 1)
    /\ UNCHANGED <<start_file, base_folder, base_arg, max_depth, fileLinks, unreadable, output>>

\* line 113: the loop is over
ReturnResults ==
    /\ UNCHANGED <<resVars, extVars, repoVars>>
    /\ pc = "running"
    /\ Top.todo = {}
    /\ Return(SubSeq(stack, 1, Len(stack) - 1), Top.results)
    /\ UNCHANGED <<start_file, base_folder, base_arg, max_depth, fileLinks, unreadable, visited,
                   err, output, captures, extracted>>

\* lines 125-130: one block per returned document
Block(file_content) ==
    [relative_path |-> RelativeTo(file_content.file_path, base_folder),
     content |-> file_content.content]

WriteOutput ==
    /\ UNCHANGED <<resVars, extVars, repoVars>>
    /\ pc = "traversed"
    /\ output' = [i \in 1..Len(returned) |-> Block(returned[i])]
    /\ pc' = "done"
    /\ UNCHANGED <<start_file, base_folder, base_arg, max_depth, fileLinks, unreadable, visited,
                   stack, returned, err, captures, extracted>>

TravInitCommon ==
    /\ visited = {}
    /\ stack = <<>>
    /\ returned = <<>>
    /\ pc = "init"
    /\ err = ""
    /\ output = NotWritten
    /\ captures = <<>>
    /\ extracted = {}

ResIdle ==
    /\ r_link = <<EmptyName>> /\ r_current = <<ROOT>> /\ r_base = <<ROOT>>
    /\ r_result = NoPath /\ r_pc = "idle"

ExtIdle ==
    /\ x_text = <<>> /\ x_links = {} /\ x_pc = "idle"

\* the ignore file of the folder: absent, or its lines, or not to be read
NoIgnoreFile == [kind |-> "absent", lines |-> <<>>]
IgnoreUnreadable == [kind |-> "unreadable", lines |-> <<>>]
IgnoreFile(lines) == [kind |-> "file", lines |-> lines]

\* the output file before open(output_path, 'w')
FolderNotWritten == [written |-> FALSE, tree |-> <<>>, blocks |-> <<>>]

RepoIdle ==
    /\ gitignore = NoIgnoreFile /\ g_unreadable = {} /\ pathspec = <<>>
    /\ tree_structure = <<>> /\ walk_dirs = <<>> /\ walk_files = {}
    /\ file_contents = <<>> /\ g_passed = {} /\ g_opened = {}
    /\ g_output = FolderNotWritten /\ g_pc = "idle"

Init ==
    /\ start_file = <<Nm("a")>>
    /\ base_folder = VaultPath
    /\ base_arg = base_folder
    /\ max_depth \in 0..MaxDepth
    /\ fileLinks \in { LinksOf(s) : s \in PairSets(MaxLinks, Docs, Links) }
    /\ unreadable = {}
    /\ TravInitCommon
    /\ ResIdle
    /\ ExtIdle
    /\ RepoIdle

Next ==
    \/ DumpMarkdownFiles
    \/ SkipLink
    \/ LinkOutsideBase
    \/ NestedCall
    \/ ReturnResults
    \/ WriteOutput

Spec == Init /\ [][Next]_vars

\* ---- the dump's inputs: start references and base folders, with
\* documents that cannot be read and every kind of link

MaxDumpLinks == 2

\* ObsidianTraversalInput.max_depth's default
DefaultMaxDepth == 2

DumpInputs ==
    { <<<<Nm("a")>>, VaultPath>>,                           \* "a"
      <<<<Md("a")>>, VaultPath>>,                           \* "a.md"
      <<<<Nm("sub"), Nm("d")>>, VaultPath>>,                \* "sub/d"
      <<<<Nm("nosuch")>>, VaultPath>>,                      \* no such file
      <<<<Nm("e")>>, VaultPath>>,                           \* e.md is a directory
      <<<<EmptyName, Nm("v"), Md("a")>>, NoPath>>,          \* "/v/a.md"
      <<<<EmptyName, Nm("v"), Nm("sub"), Md("d")>>, NoPath>>, \* "/v/sub/d.md"
      <<<<Md("a")>>, NoPath>>,                              \* "a.md" in the cwd
      <<<<Nm("v"), Md("a")>>, NoPath>>,                     \* "v/a.md"
      <<<<Nm("v"), Nm("sub"), Md("d")>>, NoPath>>,          \* "v/sub/d.md"
      <<<<EmptyName, Nm("v"), Nm("nosuch")>>, NoPath>> }    \* "/v/nosuch"

\* the documents whose texts vary in SpecDump
DumpDocs == { <<Nm("v"), Md("a")>>, <<Nm("v"), Nm("sub"), Md("d")>> }

InitDump ==
    /\ \E in \in DumpInputs : start_file = in[1] /\ base_folder = in[2]
    /\ base_arg = base_folder
    /\ max_depth \in {0, DefaultMaxDepth}
    /\ fileLinks \in { LinksOf(s) : s \in PairSets(MaxDumpLinks, DumpDocs, AllLinks) }
    /\ unreadable \in {{}} \cup { {d} : d \in Docs }
    /\ TravInitCommon
    /\ ResIdle
    /\ ExtIdle
    /\ RepoIdle

SpecDump == InitDump /\ [][Next]_vars

-----------------------------------------------------------------------------
(* The link graph of a filesystem, for the statements about traversals *)

\* the path the top-level call starts from (line 78)
StartPath == CurrentFile(base_folder, start_file)

\* the paths the links of the document at path p resolve to
Successors(p) ==
    IF Readable(p)
    THEN { resolve_markdown_link(l, p, base_folder) : l \in fileLinks[Phys(p)] } \ {NoPath}
    ELSE {}

\* the paths a chain of at most n resolved links leads to from the start
RECURSIVE ReachWithin(_)
ReachWithin(n) ==
    IF n = 0 THEN {StartPath}
    ELSE LET r == ReachWithin(n - 1)
         IN r \cup UNION { Successors(p) : p \in r }

Finished == pc \in {"traversed", "done"}

ReturnedPaths == { returned[i].file_path : i \in DOMAIN returned }
ReturnedDocs == { Phys(p) : p \in ReturnedPaths }
CapturedAt(doc) == { i \in DOMAIN captures : Phys(captures[i].file_path) = doc }
ReturnedAt(doc) == { i \in DOMAIN returned : Phys(returned[i].file_path) = doc }

\* C1: in every state of a top-level traversal, and in the sequence it
\* returns, no two captured documents are the same physical file, whatever
\* the spellings of the references that led to them.
C1_EachPhysicalFileOnce ==
    /\ \A i, j \in DOMAIN captures :
         i # j => Phys(captures[i].file_path) # Phys(captures[j].file_path)
    /\ \A i, j \in DOMAIN returned :
         i # j => Phys(returned[i].file_path) # Phys(returned[j].file_path)

\* C2: every captured document was reached by a chain of at most max_depth
\* resolved links from the start document (a document captured by a call at
\* depth k by a chain of at most k links, k <= max_depth), so a document
\* that only longer chains lead to is never captured; and the links of a
\* document captured at depth max_depth are never extracted.
C2_DepthBound ==
    pc # "init" =>
      /\ \A i \in DOMAIN captures :
           /\ captures[i].depth <= max_depth
           /\ captures[i].file_path \in ReachWithin(captures[i].depth)
      /\ \A p \in ReturnedPaths : p \in ReachWithin(max_depth)
      /\ \A e \in extracted : e.depth < max_depth

\* C2 witness: a finished traversal that captured a document at depth
\* max_depth and left out a document that only a longer chain leads to.
C2_Witness ==
    /\ pc = "done"
    /\ max_depth >= 1
    /\ \E i \in DOMAIN captures : captures[i].depth = max_depth
    /\ \E p \in ReachWithin(max_depth + 1) \ ReachWithin(max_depth) :
         /\ IsFile(p)
         /\ Phys(p) \notin ReturnedDocs

\* the canonical path of a physical file, and the documents its links lead to
DocPath(doc) == <<ROOT>> \o doc
DocSuccessors(doc) == { Phys(p) : p \in Successors(DocPath(doc)) } \cap Files
StartDoc == Phys(StartPath)

Last(seq) == seq[Len(seq)]
Range(seq) == { seq[i] : i \in DOMAIN seq }

\* the chains of n distinct documents that start at the start document
RECURSIVE DocChains(_)
DocChains(n) ==
    IF n = 1 THEN {<<StartDoc>>}
    ELSE UNION { { Append(c, d) : d \in DocSuccessors(Last(c)) \ Range(c) } :
                 c \in DocChains(n - 1) }

\* the cycles of the link graph through the start document
Cycles ==
    { c \in UNION { DocChains(n) : n \in 1..Cardinality(Files) } :
        StartDoc \in DocSuccessors(Last(c)) }

SoleLink(p) ==
    /\ Readable(p)
    /\ Cardinality(fileLinks[Phys(p)]) = 1
    /\ Successors(p) # {}

SoleSuccessor(p) == CHOOSE q \in Successors(p) : TRUE

\* the chain of n paths from the start path along sole links (NoPath from
\* where a document has no sole link)
RECURSIVE SoleChain(_)
SoleChain(n) ==
    IF n = 1 THEN <<StartPath>>
    ELSE LET c == SoleChain(n - 1)
         IN Append(c, IF Last(c) # NoPath /\ SoleLink(Last(c))
                      THEN SoleSuccessor(Last(c)) ELSE NoPath)

\* the link graph from the start is one cycle of k documents: each holds one
\* link, to the next document, the k-th to the path the traversal starts from
PureCycle(k) ==
    LET c == SoleChain(k + 1)
    IN /\ \A i \in 1..k : c[i] # NoPath /\ IsFile(c[i]) /\ IsPrefix(base_folder, c[i])
       /\ \A i, j \in 1..k : i # j => Phys(c[i]) # Phys(c[j])
       /\ c[k + 1] = StartPath

Min(a, b) == IF a < b THEN a ELSE b

C4_AllWithinDepthFound ==
    Finished =>
      \A p \in ReachWithin(max_depth) :
        (Readable(p) /\ IsPrefix(base_folder, p)) => Phys(p) \in ReturnedDocs

\* C5: a traversal whose start document exists never raises.
C5_OnlyMissingStartRaises ==
    pc = "raised" => ~IsFile(StartPath)

-----------------------------------------------------------------------------
(* The dump: start document, base folder, output *)

\* the file the start reference names for the caller (relative to the cwd)
NamedStart == PathOf(ensure_md_extension(start_file))

\* C6: when the start document is not a regular file, the dump raises
\* "File not found" and the output file is left as it was: it is opened only
\* after the whole traversal has returned.
C6_MissingStartLeavesOutput ==
    /\ (pc # "init" /\ ~IsFile(StartPath)) =>
          /\ pc = "raised"
          /\ err = "File not found"
          /\ output = NotWritten
    /\ pc # "done" => output = NotWritten

\* C6 witness: the dump of a missing start document has raised
C6_Witness ==
    /\ pc = "raised"
    /\ err = "File not found"
    /\ ~Exists(StartPath)
    /\ captures = <<>>
    /\ output = NotWritten

\* C7 (as claimed): whenever the top-level traversal returns, its result is
\* not empty and starts with the start document, whose block opens the
\* artifact.
C7_StartDocumentFirst ==
    /\ Finished => Len(returned) >= 1 /\ returned[1].file_path = StartPath
    /\ pc = "done" =>
          /\ Len(output) >= 1
          /\ output[1].relative_path = RelativeTo(StartPath, base_folder)

\* C7 (amended): whenever the top-level traversal returns and the start
\* document could be read, its result starts with the start document, whose
\* block opens the artifact; a start document that cannot be read gives an
\* empty result.
C7_ReadableStartDocumentFirst ==
    /\ (Finished /\ Readable(StartPath)) =>
          /\ Len(returned) >= 1
          /\ returned[1].file_path = StartPath
    /\ (pc = "done" /\ Readable(StartPath)) =>
          /\ Len(output) >= 1
          /\ output[1].relative_path = RelativeTo(StartPath, base_folder)
    /\ (Finished /\ ~Readable(StartPath)) => returned = <<>>

\* C7 witness: an artifact of several blocks, the start document's first
C7_Witness ==
    /\ pc = "done"
    /\ Len(output) >= 3
    /\ returned[1].file_path = StartPath
    /\ output[1].relative_path = RelativeTo(StartPath, base_folder)

\* C8: with no base folder given, the base folder is the start document's
\* directory: a start reference that names an existing file is found, its
\* block is named by its bare file name, and every block's path is relative
\* to the start document's directory.
C8_DefaultBaseIsStartDirectory ==
    (base_arg = NoPath /\ IsFile(NamedStart) /\ pc # "init") =>
      /\ ~(pc = "raised" /\ err = "File not found" /\ visited = {})
      /\ Phys(StartPath) = Phys(NamedStart)
      /\ (pc = "done" /\ Readable(NamedStart)) =>
            /\ output[1].relative_path = <<NameOf(NamedStart)>>
            /\ \A i \in DOMAIN output :
                 Phys(Parent(NamedStart) \o output[i].relative_path)
                   = Phys(returned[i].file_path)

-----------------------------------------------------------------------------
(* resolve_markdown_link, called on its own *)

TravIdle ==
    /\ start_file = <<Nm("a")>>
    /\ base_folder = VaultPath
    /\ base_arg = VaultPath
    /\ max_depth = DefaultMaxDepth
    /\ fileLinks = LinksOf({})
    /\ unreadable = {}
    /\ TravInitCommon

\* the references, the documents that hold them and the base folders
ResolveLinks ==
    AllLinks \cup
    { <<Md("b")>>,                      \* "b.md"
      <<Nm("d")>>,                      \* "d"
      <<Nm("sub"), Md("d")>>,           \* "sub/d.md"
      <<Nm("nosuch")>>,                 \* "nosuch"
      <<DotDot, Nm("b")>>,              \* "../b"
      <<DotDot, Md("b")>>,              \* "../b.md"
      <<DotDot, Nm("sub"), Nm("d")>>,   \* "../sub/d"
      <<DotDot, Nm("sub"), Nm("b")>>,   \* "../sub/b"
      <<DotDot, Nm("nosuch")>>,         \* "../nosuch"
      <<DotDot, Nm("e")>>,              \* "../e"
      <<DotDot, DotDot, Nm("a")>>,      \* "../../a"
      <<DotDot, EmptyName>>,            \* "../"
      <<DotDot>>,                       \* ".."
      <<EmptyName, Nm("v"), Nm("b")>> } \* "/v/b"

ResolveCurrents ==
    { <<ROOT, Nm("v"), Md("a")>>,                       \* /v/a.md
      <<ROOT, Nm("v"), Nm("sub"), Md("d")>>,            \* /v/sub/d.md
      <<ROOT, Nm("v"), Nm("sub"), DotDot, Md("b")>>,    \* /v/sub/../b.md
      <<ROOT, Md("a")>>,                                \* /a.md
      <<Nm("v"), Nm("sub"), Md("d")>>,                  \* v/sub/d.md
      <<Md("a")>> }                                     \* a.md

ResolveBases ==
    { VaultPath, <<ROOT>>, <<ROOT, Nm("v"), Nm("sub")>>, <<Nm("v")>>, <<>> }

InitResolve ==
    /\ r_link \in ResolveLinks
    /\ r_current \in ResolveCurrents
    /\ r_base \in ResolveBases
    /\ r_result = NoPath
    /\ r_pc = "call"
    /\ TravIdle
    /\ ExtIdle
    /\ RepoIdle

ResolveMarkdownLink ==
    /\ r_pc = "call"
    /\ r_result' = resolve_markdown_link(r_link, r_current, r_base)
    /\ r_pc' = "returned"
    /\ UNCHANGED <<r_link, r_current, r_base, travVars, extVars, repoVars>>

NextResolve == ResolveMarkdownLink

SpecResolve == InitResolve /\ [][NextResolve]_vars

\* the '../x' of the reference, and <dir> of a document <dir>/<sub>/<file>
AfterDotDot == Tail(r_link)
TwoLevelsUp == SubSeq(r_current, 1, Len(r_current) - 2)
NamesAFile(str) == Last(str) \notin {EmptyName, Dot}

\* C9: a reference '../x' in the document <dir>/<sub>/<file> resolves to
\* <dir>/x, with '.md' appended unless x ends in it, when that exists, and to
\* nothing otherwise: neither the document's directory nor the base folder
\* (which the expected value does not read) gives a candidate.
C9_ParentReference ==
    (/\ r_pc = "returned"
     /\ StartsWithDotDotSlash(r_link)
     /\ NamesAFile(AfterDotDot)
     /\ Len(r_current) >= 3) =>
        LET expected == TwoLevelsUp \o ensure_md_extension(AfterDotDot)
        IN r_result = IF Exists(expected) THEN expected ELSE NoPath

\* C9 witness: '../b' in /v/sub/d.md with /v/sub as base folder gives
\* /v/b.md, although /v/sub/b.md exists
C9_Witness ==
    /\ r_pc = "returned"
    /\ r_link = <<DotDot, Nm("b")>>
    /\ r_current = <<ROOT, Nm("v"), Nm("sub"), Md("d")>>
    /\ r_base = <<ROOT, Nm("v"), Nm("sub")>>
    /\ IsFile(r_base \o <<Md("b")>>)
    /\ r_result = <<ROOT, Nm("v"), Md("b")>>

-----------------------------------------------------------------------------
(* extract_markdown_links: a text is a sequence of characters *)

MaxPieces == 5

HttpPrefix == <<"h", "t", "t", "p", ":", "/", "/">>
HttpsPrefix == <<"h", "t", "t", "p", "s", ":", "/", "/">>
FtpPrefix == <<"f", "t", "p", ":", "/", "/">>

\* the pieces the texts are put together from
Pieces ==
    { <<"[", "[">>, <<"]", "]">>, <<"[", "t", "]", "(">>, <<")">>,
      <<"a">>, <<"|">>, <<"#">>, HttpPrefix }

RECURSIVE Texts(_)
Texts(n) ==
    IF n = 0 THEN {<<>>}
    ELSE LET shorter == Texts(n - 1)
         IN shorter \cup { t \o p : t \in shorter, p \in Pieces }

CharAt(text, i, c) == i >= 1 /\ i <= Len(text) /\ text[i] = c

\* the least j >= i with text[j] = c, 0 if none
RECURSIVE IndexFrom(_, _, _)
IndexFrom(text, i, c) ==
    IF i > Len(text) THEN 0
    ELSE IF text[i] = c THEN i
    ELSE IndexFrom(text, i + 1, c)

\* the least j >= i with text[j] = text[j+1] = "]", 0 if none
RECURSIVE ClosingFrom(_, _)
ClosingFrom(text, i) ==
    IF i >= Len(text) THEN 0
    ELSE IF text[i] = "]" /\ text[i + 1] = "]" THEN i
    ELSE ClosingFrom(text, i + 1)

\* line 14: re.findall(r'\[\[(.*?)\]\]', content), scanning from i
RECURSIVE WikiMatches(_, _)
WikiMatches(text, i) ==
    IF i > Len(text) THEN {}
    ELSE IF CharAt(text, i, "[") /\ CharAt(text, i + 1, "[") /\ ClosingFrom(text, i + 2) # 0
         THEN LET j == ClosingFrom(text, i + 2)
              IN {SubSeq(text, i + 2, j - 1)} \cup WikiMatches(text, j + 2)
    ELSE WikiMatches(text, i + 1)

\* line 20: re.findall(r'\[(?:[^\]]*)\]\(([^)]+)\)', content), scanning from i
RECURSIVE MdMatches(_, _)
MdMatches(text, i) ==
    IF i > Len(text) THEN {}
    ELSE LET j == IndexFrom(text, i + 1, "]")
             k == IndexFrom(text, j + 2, ")")
         IN IF /\ CharAt(text, i, "[")
               /\ j # 0
               /\ CharAt(text, j + 1, "(")
               /\ k > j + 2
            THEN {SubSeq(text, j + 2, k - 1)} \cup MdMatches(text, k + 1)
            ELSE MdMatches(text, i + 1)

\* s.split(c)[0]
BeforeFirst(str, c) ==
    LET i == IndexFrom(str, 1, c)
    IN IF i = 0 THEN str ELSE SubSeq(str, 1, i - 1)

\* str.startswith(prefix)
StartsWith(str, prefix) ==
    Len(str) >= Len(prefix) /\ SubSeq(str, 1, Len(prefix)) = prefix

\* mutant of WikiTarget: the alias is kept
WikiTargetWithAlias(match) == match

\* line 16: match.split('|')[0]
WikiTarget(match) == BeforeFirst(match, "|")

\* line 25: link.split('#')[0]
WithoutAnchor(link) == BeforeFirst(link, "#")

\* lines 13-16
WikiLinks(text) == { WikiTarget(m) : m \in WikiMatches(text, 1) }

\* line 21: link.startswith(('http://', 'https://', 'ftp://'))
IsExternal(link) ==
    \/ StartsWith(link, HttpPrefix)
    \/ StartsWith(link, HttpsPrefix)
    \/ StartsWith(link, FtpPrefix)

\* lines 19-22
MdLinks(text) == { link \in MdMatches(text, 1) : ~IsExternal(link) }

extract_markdown_links(text) ==
    { WithoutAnchor(link) : link \in WikiLinks(text) \cup MdLinks(text) }

InitExtract ==
    /\ x_text \in Texts(MaxPieces)
    /\ x_links = {}
    /\ x_pc = "call"
    /\ TravIdle
    /\ ResIdle
    /\ RepoIdle

ExtractMarkdownLinks ==
    /\ x_pc = "call"
    /\ x_links' = extract_markdown_links(x_text)
    /\ x_pc' = "returned"
    /\ UNCHANGED <<x_text, travVars, resVars, repoVars>>

NextExtract == ExtractMarkdownLinks

SpecExtract == InitExtract /\ [][NextExtract]_vars

Holds(str, c) == \E i \in DOMAIN str : str[i] = c

\* C10 (as claimed): no returned target holds a '#' or a '|', whichever of
\* the two link syntaxes it came from (the result is a set: it has no
\* duplicates).
C10_NoAnchorNoAlias ==
    x_pc = "returned" =>
      \A target \in x_links : ~Holds(target, "#") /\ ~Holds(target, "|")

\* C10 (amended): no returned target holds a '#', and a returned target
\* holds a '|' only if it is the target of a [text](target) link: the alias
\* is cut from the [[target|alias]] links alone, and a [text](target) link
\* that is not external gives its target up to the first '#', '|' included.
C10_NoAnchorNoWikiAlias ==
    x_pc = "returned" =>
      /\ \A target \in x_links :
           /\ ~Holds(target, "#")
           /\ Holds(target, "|") =>
                \E m \in MdMatches(x_text, 1) : BeforeFirst(m, "#") = target
      /\ \A m \in WikiMatches(x_text, 1) :
           BeforeFirst(BeforeFirst(m, "|"), "#") \in x_links
      /\ \A m \in MdMatches(x_text, 1) :
           ~IsExternal(m) => BeforeFirst(m, "#") \in x_links

\* C10 witness: a [[target#anchor|alias]] link gave its bare target
C10_Witness ==
    /\ x_pc = "returned"
    /\ \E m \in WikiMatches(x_text, 1) : Holds(m, "|") /\ Holds(m, "#") /\ Len(m) = 3
    /\ x_links = {<<"a">>}

-----------------------------------------------------------------------------
(* The directory dump (llm_dump/repo.py).                                   *)
(* A path below the dumped folder is the sequence of its names; the string  *)
(* it is matched under is that sequence, with one more, empty, component    *)
(* when '/' was appended to it.  A name is a sequence of pieces, as above,  *)
(* so that "test.pyc" is <<"test", ".pyc">> and the glob "*.pyc" is         *)
(* <<"*", ".pyc">>.                                                         *)

\* ---- the folder on disk
GitDir == Nm(".git")
GitignoreName == Nm(".gitignore")

\* the directories below the folder (the folder itself is <<>>)
RepoDirs == { <<>>, <<GitDir>>, <<Nm("build")>>, <<Nm("src")>>, <<Nm("src"), Nm("lib")>> }

\* the regular files below the folder, the ignore file aside
RepoFiles ==
    { <<GitDir, Nm("config")>>,
      <<Nm("build"), <<"keep", ".txt">>>>,
      <<Nm("src"), <<"main", ".py">>>>,
      <<Nm("src"), <<"test", ".pyc">>>>,
      <<Nm("src"), Nm("lib"), <<"util", ".py">>>>,
      <<<<"README", ".md">>>>,
      <<<<"a", ".py">>>> }

\* gitignore_path.exists()
IgnoreFileExists == gitignore # NoIgnoreFile

\* the regular files, the ignore file included when there is one
AllRepoFiles == RepoFiles \cup (IF IgnoreFileExists THEN {<<GitignoreName>>} ELSE {})

\* entry.is_dir() / entry.is_file()
RepoIsDir(p) == p \in RepoDirs
RepoIsFile(p) == p \in AllRepoFiles

\* folder.iterdir()
IterDir(folder) ==
    { p \in (RepoDirs \cup AllRepoFiles) : Len(p) = Len(folder) + 1 /\ IsPrefix(folder, p) }

\* the names on disk in the order Python compares strings
NamesInOrder ==
    << GitDir, GitignoreName, <<"README", ".md">>, <<"a", ".py">>, Nm("build"), Nm("config"),
       <<"keep", ".txt">>, Nm("lib"), <<"main", ".py">>, Nm("src"), <<"test", ".pyc">>,
       <<"util", ".py">> >>

NameRank(name) == CHOOSE i \in DOMAIN NamesInOrder : NamesInOrder[i] = name

\* key=lambda x: (x.is_file(), x.name): directories first, then by name
KeyLess(p, q) ==
    \/ RepoIsDir(p) /\ RepoIsFile(q)
    \/ /\ RepoIsDir(p) = RepoIsDir(q)
       /\ NameRank(NameOf(p)) < NameRank(NameOf(q))

\* sorted(entries, key=...)
RECURSIVE Sorted(_)
Sorted(entries) ==
    IF entries = {} THEN <<>>
    ELSE LET first == CHOOSE p \in entries : \A q \in entries \ {p} : KeyLess(p, q)
         IN <<first>> \o Sorted(entries \ {first})

\* ---- the rule set: pathspec's "gitwildmatch" patterns
DoubleStar == Nm("**")
Star == Nm("*")

\* one line of the ignore file: '!' in front or not, and the rest split at '/'
Line(neg, segs) == [neg |-> neg, segs |-> segs]

\* line 15-18
default_patterns ==
    << Line(FALSE, <<GitDir, EmptyName>>),
       Line(FALSE, <<GitDir, DoubleStar, Star>>) >>

\* a blank line is no pattern
IsPattern(line) == line.segs # <<EmptyName>>

\* the segments a pattern is matched by: a pattern with no '/' but at its end
\* matches at any depth, and one that ends in '/' matches what is below
PatternSegs(line) ==
    LET segs == line.segs
        placed == IF segs[1] = EmptyName /\ Len(segs) > 1 THEN Tail(segs)
                  ELSE IF Len(segs) = 1 \/ (Len(segs) = 2 /\ segs[2] = EmptyName)
                       THEN <<DoubleStar>> \o segs
                       ELSE segs
    IN IF placed[Len(placed)] = EmptyName /\ Len(placed) > 1
       THEN [placed EXCEPT ![Len(placed)] = DoubleStar]
       ELSE placed

\* one segment's glob against one name: a literal, '*', or '*' and a suffix
GlobMatches(seg, name) ==
    /\ name # EmptyName
    /\ \/ seg = Star
       \/ seg = name
       \/ Len(seg) = 2 /\ seg[1] = "*" /\ name[Len(name)] = seg[2]

\* the segments from the i-th on match the components from the j-th on
RECURSIVE SegsMatch(_, _, _, _)
SegsMatch(segs, i, comps, j) ==
    IF i > Len(segs) THEN TRUE
    ELSE IF segs[i] = DoubleStar
    THEN IF i = Len(segs) THEN j <= Len(comps)
         ELSE \E k \in j..(Len(comps) + 1) : SegsMatch(segs, i + 1, comps, k)
    ELSE /\ j <= Len(comps)
         /\ GlobMatches(segs[i], comps[j])
         /\ SegsMatch(segs, i + 1, comps, j + 1)

PatternMatches(line, comps) == SegsMatch(PatternSegs(line), 1, comps, 1)

\* PathSpec.match_file: the last pattern that matches decides
RECURSIVE MatchUpTo(_, _, _)
MatchUpTo(patterns, n, comps) ==
    IF n = 0 THEN FALSE
    ELSE IF IsPattern(patterns[n]) /\ PatternMatches(patterns[n], comps)
         THEN ~patterns[n].neg
         ELSE MatchUpTo(patterns, n - 1, comps)

match_file(patterns, comps) == MatchUpTo(patterns, Len(patterns), comps)

\* mutant of load_gitignore: the built-in patterns are put in front of the lines
DefaultsFirst(lines) == default_patterns \o lines

\* line 23: list(f) + default_patterns
DefaultsLast(lines) == lines \o default_patterns

\* lines 20-26, for a folder whose ignore file, if any, can be read
load_gitignore ==
    IF IgnoreFileExists THEN DefaultsLast(gitignore.lines) ELSE default_patterns

\* ---- generate_file_tree
\* lines 48 and 55; the box-drawing characters are written in ASCII:
\* "+-- " is the corner, "|-- " the tee, "|   " the bar
Connector(is_last) == IF is_last THEN "+-- " ELSE "|-- "
Indent(is_last) == IF is_last THEN "    " ELSE "|   "

\* lines 40-42: the string the entry is matched under
RelativeEntry(entry) == IF RepoIsDir(entry) THEN Append(entry, EmptyName) ELSE entry

\* line 44: pathspec and pathspec.match_file(relative_entry)
TreeSkips(patterns, entry) ==
    Len(patterns) > 0 /\ match_file(patterns, RelativeEntry(entry))

\* line 47
IsLastEntry(idx, entries) == idx = Len(entries)

\* lines 38-58, from the idx-th entry on; a line of the tree keeps, next to its
\* prefix, connector and name, the entry it was written for
RECURSIVE TreeFrom(_, _, _, _)
TreeFrom(patterns, prefix, entries, idx) ==
    IF idx > Len(entries) THEN <<>>
    ELSE LET entry == entries[idx]
             is_last == IsLastEntry(idx, entries)
             own == [prefix |-> prefix, connector |-> Connector(is_last),
                     name |-> NameOf(entry), entry |-> entry]
             subtree == IF RepoIsDir(entry)
                        THEN TreeFrom(patterns, Append(prefix, Indent(is_last)),
                                      Sorted(IterDir(entry)), 1)
                        ELSE <<>>
             rest == TreeFrom(patterns, prefix, entries, idx + 1)
         IN IF TreeSkips(patterns, entry) THEN rest
            ELSE <<own>> \o subtree \o rest

\* lines 28-60, for the dumped folder
generate_file_tree(patterns) == TreeFrom(patterns, <<>>, Sorted(IterDir(<<>>)), 1)

\* ---- traverse_folder
\* mutant of CollectorSkips: the filter lets every file through
CollectorSkipsNothing(patterns, file) == FALSE

\* line 71: pathspec and pathspec.match_file(relative_path)
CollectorSkips(patterns, file) == Len(patterns) > 0 /\ match_file(patterns, file)

\* the orders a set can be listed in
RECURSIVE Orders(_)
Orders(set) ==
    IF set = {} THEN {<<>>}
    ELSE UNION { { <<x>> \o o : o \in Orders(set \ {x}) } : x \in set }

FolderContent(file) == [file_path |-> file, content |-> [text_of |-> file]]

\* ---- the inputs
MaxRules == 2

\* blank, '*.pyc', 'build/', '!build/keep.txt', 'README.md', 'a.py',
\* '!.git/', '!.git/**/*'
IgnoreLines ==
    { Line(FALSE, <<EmptyName>>),
      Line(FALSE, <<<<"*", ".pyc">>>>),
      Line(FALSE, <<Nm("build"), EmptyName>>),
      Line(TRUE, <<Nm("build"), <<"keep", ".txt">>>>),
      Line(FALSE, <<<<"README", ".md">>>>),
      Line(FALSE, <<<<"a", ".py">>>>),
      Line(TRUE, <<GitDir, EmptyName>>),
      Line(TRUE, <<GitDir, DoubleStar, Star>>) }

RECURSIVE LineSeqs(_)
LineSeqs(n) ==
    IF n = 0 THEN {<<>>}
    ELSE LET shorter == LineSeqs(n - 1)
         IN shorter \cup { Append(ls, l) : ls \in shorter, l \in IgnoreLines }

InitRepo ==
    /\ gitignore \in {NoIgnoreFile, IgnoreUnreadable} \cup { IgnoreFile(ls) : ls \in LineSeqs(MaxRules) }
    /\ g_unreadable \in {{}, {<<<<"README", ".md">>>>}}
    /\ pathspec = <<>>
    /\ tree_structure = <<>>
    /\ walk_dirs = <<>>
    /\ walk_files = {}
    /\ file_contents = <<>>
    /\ g_passed = {}
    /\ g_opened = {}
    /\ g_output = FolderNotWritten
    /\ g_pc = "init"
    /\ start_file = <<Nm("a")>> /\ base_folder = VaultPath /\ base_arg = VaultPath
    /\ max_depth = 0 /\ fileLinks = LinksOf({}) /\ unreadable = {}
    /\ TravInitCommon
    /\ ResIdle
    /\ ExtIdle

\* ---- the steps of dump_files_to_text
\* line 89, lines 20-26
LoadGitignore ==
    /\ g_pc = "init"
    /\ gitignore # IgnoreUnreadable
    /\ pathspec' = load_gitignore
    /\ g_pc' = "loaded"
    /\ UNCHANGED <<gitignore, g_unreadable, tree_structure, walk_dirs, walk_files,
                   file_contents, g_passed, g_opened, g_output>>
    /\ UNCHANGED <<travVars, resVars, extVars>>

\* line 22: open() of an ignore file that exists and cannot be read raises
LoadGitignoreRaises ==
    /\ g_pc = "init"
    /\ gitignore = IgnoreUnreadable
    /\ g_pc' = "raised"
    /\ UNCHANGED <<gitignore, g_unreadable, pathspec, tree_structure, walk_dirs, walk_files,
                   file_contents, g_passed, g_opened, g_output>>
    /\ UNCHANGED <<travVars, resVars, extVars>>

\* line 92
GenerateFileTree ==
    /\ g_pc = "loaded"
    /\ tree_structure' = generate_file_tree(pathspec)
    /\ g_pc' = "tree"
    /\ UNCHANGED <<gitignore, g_unreadable, pathspec, walk_dirs, walk_files,
                   file_contents, g_passed, g_opened, g_output>>
    /\ UNCHANGED <<travVars, resVars, extVars>>

\* line 95, lines 66-67: os.walk starts at the folder
TraverseFolder ==
    /\ g_pc = "tree"
    /\ walk_dirs' = << <<>> >>
    /\ walk_files' = {}
    /\ file_contents' = <<>>
    /\ g_pc' = "walking"
    /\ UNCHANGED <<gitignore, g_unreadable, pathspec, tree_structure, g_passed, g_opened,
                   g_output>>
    /\ UNCHANGED <<travVars, resVars, extVars>>

\* line 67: os.walk yields the next directory, top-down, its sub-directories
\* to follow in the order the operating system lists them
WalkDirectory ==
    /\ g_pc = "walking"
    /\ walk_files = {}
    /\ walk_dirs # <<>>
    /\ LET root == Head(walk_dirs)
       IN /\ walk_files' = { f \in IterDir(root) : RepoIsFile(f) }
          /\ \E order \in Orders({ d \in IterDir(root) : RepoIsDir(d) }) :
                walk_dirs' = order \o Tail(walk_dirs)
    /\ UNCHANGED <<gitignore, g_unreadable, pathspec, tree_structure, file_contents,
                   g_passed, g_opened, g_output, g_pc>>
    /\ UNCHANGED <<travVars, resVars, extVars>>

\* lines 68-72: a file the rule set matches
SkipIgnoredFile ==
    /\ g_pc = "walking"
    /\ \E file \in walk_files :
          /\ CollectorSkips(pathspec, file)
          /\ walk_files' = walk_files \ {file}
    /\ UNCHANGED <<gitignore, g_unreadable, pathspec, tree_structure, walk_dirs,
                   file_contents, g_passed, g_opened, g_output, g_pc>>
    /\ UNCHANGED <<travVars, resVars, extVars>>

\* lines 68-76: a file that is let through and read
ReadFile ==
    /\ g_pc = "walking"
    /\ \E file \in walk_files :
          /\ ~CollectorSkips(pathspec, file)
          /\ file \notin g_unreadable
          /\ walk_files' = walk_files \ {file}
          /\ file_contents' = Append(file_contents, FolderContent(file))
          /\ g_passed' = g_passed \cup {file}
          /\ g_opened' = g_opened \cup {file}
    /\ UNCHANGED <<gitignore, g_unreadable, pathspec, tree_structure, walk_dirs,
                   g_output, g_pc>>
    /\ UNCHANGED <<travVars, resVars, extVars>>

\* lines 73-78: a file that is let through and whose read raises
ReadFileFails ==
    /\ g_pc = "walking"
    /\ \E file \in walk_files :
          /\ ~CollectorSkips(pathspec, file)
          /\ file \in g_unreadable
          /\ walk_files' = walk_files \ {file}
          /\ g_passed' = g_passed \cup {file}
          /\ g_opened' = g_opened \cup {file}
    /\ UNCHANGED <<gitignore, g_unreadable, pathspec, tree_structure, walk_dirs,
                   file_contents, g_output, g_pc>>
    /\ UNCHANGED <<travVars, resVars, extVars>>

\* line 79
ReturnFileContents ==
    /\ g_pc = "walking"
    /\ walk_files = {}
    /\ walk_dirs = <<>>
    /\ g_pc' = "collected"
    /\ UNCHANGED <<gitignore, g_unreadable, pathspec, tree_structure, walk_dirs, walk_files,
                   file_contents, g_passed, g_opened, g_output>>
    /\ UNCHANGED <<travVars, resVars, extVars>>

\* lines 98-107
WriteFolderOutput ==
    /\ g_pc = "collected"
    /\ g_output' = [written |-> TRUE, tree |-> tree_structure,
                    blocks |-> [i \in DOMAIN file_contents |->
                                  [relative_path |-> file_contents[i].file_path,
                                   content |-> file_contents[i].content]]]
    /\ g_pc' = "done"
    /\ UNCHANGED <<gitignore, g_unreadable, pathspec, tree_structure, walk_dirs, walk_files,
                   file_contents, g_passed, g_opened>>
    /\ UNCHANGED <<travVars, resVars, extVars>>

NextRepo ==
    \/ LoadGitignore
    \/ LoadGitignoreRaises
    \/ GenerateFileTree
    \/ TraverseFolder
    \/ WalkDirectory
    \/ SkipIgnoredFile
    \/ ReadFile
    \/ ReadFileFails
    \/ ReturnFileContents
    \/ WriteFolderOutput

SpecRepo == InitRepo /\ [][NextRepo]_vars

-----------------------------------------------------------------------------
(* Statements about the directory dump *)

\* the relative paths of the documents traverse_folder has collected
CollectedFiles == { file_contents[i].file_path : i \in DOMAIN file_contents }

\* the relative paths of the blocks of the output file
WrittenFiles == { g_output.blocks[i].relative_path : i \in DOMAIN g_output.blocks }

\* C11: within one directory dump, every document traverse_folder collects is
\* a regular file below the dumped folder whose folder-relative path the rule
\* set does not match, and no file whose relative path is matched is ever
\* opened or written to the output file.
C11_CollectedNotIgnored ==
    /\ \A file \in CollectedFiles \cup g_opened \cup WrittenFiles :
          /\ RepoIsFile(file)
          /\ ~match_file(pathspec, file)
    /\ g_pc \in {"collected", "done"} =>
          \A file \in AllRepoFiles :
             match_file(pathspec, file) => file \notin g_opened

\* C11 witness: a dump is written whose folder holds a file an ignore-file
\* line matches (src/test.pyc) next to files that were collected
C11_Witness ==
    /\ g_pc = "done"
    /\ match_file(pathspec, <<Nm("src"), <<"test", ".pyc">>>>)
    /\ <<Nm("src"), <<"main", ".py">>>> \in WrittenFiles

\* the entries the lines of the tree were written for
TreeEntries == { tree_structure[i].entry : i \in DOMAIN tree_structure }

\* the .git directory of the folder, or a path beneath it
InGitDir(p) == Len(p) >= 1 /\ p[1] = GitDir

\* load_gitignore has returned a rule set
RuleSetBuilt == g_pc \in {"loaded", "tree", "walking", "collected", "done"}

\* C12: the rule set load_gitignore builds ends with the two built-in
\* patterns '.git/' and '.git/**/*', after every line of the ignore file (all
\* of them kept, in order) when there is one and alone when there is none;
\* and neither the tree, nor the documents collected, opened or written, hold
\* the .git directory or a file beneath it.
C12_GitDirAlwaysExcluded ==
    /\ RuleSetBuilt =>
          /\ Len(pathspec) >= 2
          /\ SubSeq(pathspec, Len(pathspec) - 1, Len(pathspec)) = default_patterns
          /\ SubSeq(pathspec, 1, Len(pathspec) - 2) = gitignore.lines
    /\ \A p \in TreeEntries \cup CollectedFiles \cup g_opened \cup WrittenFiles : ~InGitDir(p)

\* C12 witness: a dump is written for a folder whose ignore file holds the
\* lines '!.git/' and '!.git/**/*', which re-include what they match
C12_Witness ==
    /\ g_pc = "done"
    /\ gitignore = IgnoreFile(<< Line(TRUE, <<GitDir, EmptyName>>),
                                 Line(TRUE, <<GitDir, DoubleStar, Star>>) >>)
    /\ Len(tree_structure) > 0
    /\ CollectedFiles # {}

-----------------------------------------------------------------------------
(* More statements about resolve_markdown_link and the traversal *)

\* a reference made of names only: no empty, '.' or '..' component
PlainReference(str) == \A i \in DOMAIN str : str[i] \notin {EmptyName, Dot, DotDot}

\* C13: a reference r made of plain names (so not starting with '../'), in a
\* document of directory D with base folder B, resolves to D/normalize(r) when
\* that exists, else to B/normalize(r) when that exists, else to nothing,
\* where normalize appends '.md' when absent; also when r is written without
\* '.md' and D differs from B.
C13_OwnDirectoryFirst ==
    (r_pc = "returned" /\ PlainReference(r_link)) =>
        LET own == Join(Parent(r_current), ensure_md_extension(r_link))
            base == Join(r_base, ensure_md_extension(r_link))
        IN r_result = IF Exists(own) THEN own
                      ELSE IF Exists(base) THEN base
                      ELSE NoPath

\* C14: whenever resolve_markdown_link returns a location and not None, the
\* location is a regular file on disk, never a directory.
C14_ResolvedIsRegularFile ==
    (r_pc = "returned" /\ r_result # NoPath) => IsFile(r_result)

\* every link of every document is the empty target of an anchor-only link
OnlyEmptyTargets == \A f \in Files : fileLinks[f] \subseteq {LinkAnchor}

\* C15: an empty target is not resolvable: a traversal of documents whose
\* only links are anchor-only links captures the start document alone and
\* does not fail, whatever files exist on disk.
C15_EmptyTargetNotResolved ==
    (pc # "init" /\ OnlyEmptyTargets /\ IsFile(StartPath)) =>
        /\ pc # "raised"
        /\ \A i \in DOMAIN captures : captures[i].file_path = StartPath

-----------------------------------------------------------------------------
(* The tree and the collector of the directory dump *)

\* the files that have a line in the tree
TreeFiles == { e \in TreeEntries : RepoIsFile(e) }

\* the directories a path lies beneath, each as the string it is matched under
DirsAbove(p) == { Append(SubSeq(p, 1, n), EmptyName) : n \in 1..(Len(p) - 1) }

\* C16: the tree and the collector filter alike: once the folder is
\* collected, the files that have a line in the tree are the files
\* traverse_folder let through its filter, and no file beneath a directory the
\* rule set matches is let through.
C16_TreeAndCollectorAgree ==
    g_pc \in {"collected", "done"} =>
        /\ TreeFiles = g_passed
        /\ \A file \in g_passed :
              \A dir \in DirsAbove(file) : ~match_file(pathspec, dir)

-----------------------------------------------------------------------------
(* Deep traversals: termination and the resources of one top-level call *)

MaxDeepDepth == 9
MaxDeepLinks == 3

\* the documents whose texts vary and the links they may hold: 'b',
\* 'sub/../b.md' and '../a'
DeepDocs == { <<Nm("v"), Md("a")>>, <<Nm("v"), Md("b")>> }
LinkAliasMd == <<Nm("sub"), DotDot, Md("b")>>
DeepLinks == {LinkB, LinkAliasMd, LinkUpA}

DeepLinksOf(pairs) == [f \in Files |-> { l \in DeepLinks : <<f, l>> \in pairs }]

InitDeep ==
    /\ start_file = <<Nm("a")>>
    /\ base_folder = VaultPath
    /\ base_arg = base_folder
    /\ max_depth \in 0..MaxDeepDepth
    /\ fileLinks \in { DeepLinksOf(s) : s \in PairSets(MaxDeepLinks, DeepDocs, DeepLinks) }
    /\ unreadable = {}
    /\ TravInitCommon
    /\ ResIdle
    /\ ExtIdle
    /\ RepoIdle

SpecDeep == InitDeep /\ [][Next]_vars

\* the top-level call has returned or raised
Terminated == pc \in {"traversed", "done", "raised"}

\* the number of process_markdown_file calls: one per path put in visited
DocumentsRead == Cardinality(visited)

\* the resources of the call: the documents read are at most the regular
\* files on disk, and the recursion is never deeper than max_depth
WithinBounds ==
    /\ DocumentsRead <= Cardinality(Files)
    /\ \A i \in DOMAIN captures : captures[i].depth <= max_depth
    /\ \A i \in DOMAIN stack : stack[i].depth < max_depth
    /\ Len(stack) <= max_depth

\* ---- a bound on the steps the call still has to take
\* the most links one document holds
LinkBound ==
    LET sizes == { Cardinality(fileLinks[f]) : f \in Files }
    IN CHOOSE n \in sizes : \A m \in sizes : m <= n

\* the steps one link of a call at depth d can cost: its own iteration, and,
\* when the nested call gets to its own loop, that call's return and links
RECURSIVE LinkCost(_)
LinkCost(d) ==
    IF d + 1 >= max_depth THEN 1
    ELSE 2 + LinkBound * LinkCost(d + 1)

\* the steps the frames from the i-th on can cost: a return each, and the
\* links not iterated yet
RECURSIVE StackCost(_)
StackCost(i) ==
    IF i > Len(stack) THEN 0
    ELSE 1 + Cardinality(stack[i].todo) * LinkCost(stack[i].depth) + StackCost(i + 1)

StepsLeft ==
    CASE pc = "init" -> 4 + LinkBound * LinkCost(0)
      [] pc = "running" -> 2 + StackCost(1)
      [] pc = "traversed" -> 1
      [] OTHER -> 0

\* C17: a top-level traversal terminates (every step of the call lowers a
\* natural number, so the call returns a result or raises after finitely
\* many steps), it reads at most as many documents as there are regular files
\* on disk, and its recursion is never deeper than max_depth.
C17_TerminatesWithinBounds == [][StepsLeft' < StepsLeft]_vars /\ []WithinBounds

-----------------------------------------------------------------------------
(* The traversal under one fixed iteration order, to compare a run with *)

\* a set listed in one fixed order
RECURSIVE InFixedOrder(_)
InFixedOrder(set) ==
    IF set = {} THEN <<>>
    ELSE LET x == CHOOSE y \in set : TRUE
         IN <<x>> \o InFixedOrder(set \ {x})

\* lines 77-113 run to the end, every link set iterated in its fixed order;
\* st holds the visited set, the paths of the results so far, and whether
\* the call has raised
RECURSIVE FixedOrderCall(_, _, _)
RECURSIVE FixedOrderLoop(_, _, _, _, _)
FixedOrderCall(current_file, current_depth, st) ==
    IF st.raised THEN st
    ELSE IF ~StartIsFile(current_file) THEN [st EXCEPT !.raised = TRUE]
    ELSE IF current_file \in st.visited THEN st
    ELSE IF ~Readable(current_file)
         THEN [st EXCEPT !.visited = MarkVisited(@, current_file)]
    ELSE LET seen == [st EXCEPT !.visited = MarkVisited(@, current_file),
                                !.results = Append(@, current_file)]
         IN IF DepthReached(current_depth) THEN seen
            ELSE FixedOrderLoop(current_file, current_depth,
                                InFixedOrder(fileLinks[Phys(current_file)]), 1, seen)

FixedOrderLoop(current_file, current_depth, links, i, st) ==
    IF st.raised \/ i > Len(links) THEN st
    ELSE LET resolved_path == resolve_markdown_link(links[i], current_file, BaseFolderOrCwd)
         IN IF resolved_path = NoPath \/ resolved_path \in st.visited
            THEN FixedOrderLoop(current_file, current_depth, links, i + 1, st)
            ELSE IF ~IsPrefix(BaseFolderOrCwd, resolved_path)
            THEN [st EXCEPT !.raised = TRUE]
            ELSE FixedOrderLoop(current_file, current_depth, links, i + 1,
                    FixedOrderCall(
                        CurrentFile(BaseFolderOrCwd,
                                    StrOf(RelativeTo(resolved_path, BaseFolderOrCwd))),
                        current_depth + 1, st))

\* the top-level call under the fixed order
FixedOrderRun ==
    FixedOrderCall(StartPath, 0, [visited |-> {}, results |-> <<>>, raised |-> FALSE])

\* C18: the documents a traversal captures do not depend on the order its
\* link sets are iterated in: a run that returns holds exactly the documents
\* that the run under the fixed order returns, for the same files, start
\* document and max_depth.
C18_OrderIndependent ==
    (Finished /\ ~FixedOrderRun.raised) =>
        ReturnedPaths = Range(FixedOrderRun.results)

-----------------------------------------------------------------------------
(* The drawing of the tree *)

\* the i-th line of the tree is the last one for an entry of its directory
LastRendered(i) ==
    \A j \in DOMAIN tree_structure :
        j > i => Parent(tree_structure[j].entry) # Parent(tree_structure[i].entry)

\* C19: in the tree, within every directory the last rendered entry is drawn
\* with the corner connector and every earlier rendered entry with the tee,
\* and the lines of an entry's children carry the entry's prefix and then
\* four spaces when the entry is the last rendered one of its directory and
\* the bar otherwise, whatever entries are ignored.
C19_LastRenderedGetsCorner ==
    \A i \in DOMAIN tree_structure :
        /\ tree_structure[i].connector = Connector(LastRendered(i))
        /\ \A k \in DOMAIN tree_structure :
              Parent(tree_structure[k].entry) = tree_structure[i].entry =>
                 tree_structure[k].prefix =
                    Append(tree_structure[i].prefix, Indent(LastRendered(i)))

====
